---- MODULE Spec2Model ----
(***************************************************************************)
(* Model of webserver.go: an in-memory item -> price map served over HTTP, *)
(* guarded by one sync.RWMutex.  Every request is one invocation of one of *)
(* the five handlers (list, price, create, update, delete); invocations    *)
(* run concurrently, one goroutine per request.  A handler is modelled     *)
(* statement by statement: lock acquisition, the reads and writes of       *)
(* db.items, the writes to the http.ResponseWriter, the deferred unlock.   *)
(***************************************************************************)
EXTENDS Integers, Sequences, FiniteSets, TLC

\* Number of handler invocations (requests) the server receives.
NumReqs == 3

Reqs == 1..NumReqs

\* Values of the `item` query parameter; "" is what Query().Get returns for a
\* missing or empty parameter.
ItemNames == {"shoes", ""}

\* Values of the `price` query parameter, as sequences of characters.
PriceStrs == { <<"4", "0">>, <<"9", ".", "5">>, <<"a", "b", "c">> }

NoPrice == <<>>

Digits == {"0", "1", "2", "3", "4", "5", "6", "7", "8", "9"}

DigitVal(c) ==
    CASE c = "0" -> 0 [] c = "1" -> 1 [] c = "2" -> 2 [] c = "3" -> 3
      [] c = "4" -> 4 [] c = "5" -> 5 [] c = "6" -> 6 [] c = "7" -> 7
      [] c = "8" -> 8 [] c = "9" -> 9

RECURSIVE DigitsVal(_)
\* Value of a sequence of decimal digits, most significant first.
DigitsVal(s) ==
    IF s = <<>> THEN 0
    ELSE 10 * DigitsVal(SubSeq(s, 1, Len(s) - 1)) + DigitVal(s[Len(s)])

AllDigits(s) == \A i \in 1..Len(s) : s[i] \in Digits

Pow10(k) == IF k = 0 THEN 1 ELSE IF k = 1 THEN 10 ELSE 100

\* As ParseFloat with its error ignored: every string yields a number.
ParseFloat_ErrorIgnored(s) == [err |-> FALSE, val |-> 0]

\* strconv.ParseFloat(priceStr, 32) on decimal literals [sign] digits [. digits]
\* with at most two fraction digits, followed by the conversion dollars(price).
\* The value is kept in hundredths, which is exact for these literals.
\* err is TRUE when the string is no numeric literal.
ParseFloat(s) ==
    LET neg   == Len(s) > 0 /\ s[1] = "-"
        signd == Len(s) > 0 /\ s[1] \in {"-", "+"}
        body  == IF signd THEN SubSeq(s, 2, Len(s)) ELSE s
        dots  == {i \in 1..Len(body) : body[i] = "."}
        dot   == IF dots = {} THEN Len(body) + 1
                 ELSE CHOOSE i \in dots : \A j \in dots : i <= j
        ip    == SubSeq(body, 1, dot - 1)
        fp    == SubSeq(body, dot + 1, Len(body))
        ok    == /\ Cardinality(dots) <= 1
                 /\ AllDigits(ip) /\ AllDigits(fp)
                 /\ Len(ip) + Len(fp) > 0
                 /\ Len(fp) <= 2
        mag   == DigitsVal(ip) * 100 + DigitsVal(fp) * Pow10(2 - Len(fp))
    IN  IF ok THEN [err |-> FALSE, val |-> IF neg THEN 0 - mag ELSE mag]
        ELSE [err |-> TRUE, val |-> 0]

\* As String with one fraction digit, "$%.1f".
String_OneDigit(d) ==
    [neg |-> d < 0,
     whole |-> (IF d < 0 THEN 0 - d ELSE d) \div 100,
     frac |-> ((IF d < 0 THEN 0 - d ELSE d) % 100) \div 10]

\* dollars.String: "$%.2f" of a value, as the whole part and the two
\* fraction digits that are printed.
String(d) ==
    [neg |-> d < 0,
     whole |-> (IF d < 0 THEN 0 - d ELSE d) \div 100,
     frac |-> (IF d < 0 THEN 0 - d ELSE d) % 100]

\* db.items as main constructs it.
SeedItems == [n \in {"shoes", "socks"} |-> IF n = "shoes" THEN 5000 ELSE 500]

StatusOK == 200
StatusBadRequest == 400
StatusNotFound == 404
StatusConflict == 409

NoReq == [op |-> "none", item |-> "", price |-> NoPrice]

\* The requests a client can send: /list, /price?item=, /create?item=&price=,
\* /update?item=&price=, /delete?item=.
Requests ==
    {[op |-> "list", item |-> "", price |-> NoPrice]}
    \cup [op : {"price", "delete"}, item : ItemNames, price : {NoPrice}]
    \cup [op : {"create", "update"}, item : ItemNames, price : PriceStrs]

NoResp ==
    [status |-> 0, kind |-> "none", item |-> "", price |-> NoPrice,
     text |-> String(0)]

VARIABLES
    items,      \* db.items: function from the names present to their price
    wmu,        \* db.mutex: the request that owns the writer side, 0 if none
    readers,    \* db.mutex: the requests that hold it in shared mode
    pc,         \* position of each handler invocation
    req,        \* the request each invocation serves
    code,       \* the outcome the handler has decided on (0: none yet)
    pv,         \* the handler's local `price`
    out,        \* lines a list handler has written so far
    resp,       \* the status and body written to the client
    before,     \* history: the invocations that had returned when this one began
    pre,        \* history: db.items when this invocation acquired the lock
    lastw,      \* history: per name, the last invocation that wrote it (0: seed)
    prew,       \* history: lastw of the request's item at lock acquisition
    seen        \* history: the values of db.items during a list invocation
\* pre, prew and seen describe an invocation in progress and are cleared when
\* it returns.

vars == <<items, wmu, readers, pc, req, code, pv, out, resp,
          before, pre, lastw, prew, seen>>

Has(m, n) == n \in DOMAIN m

\* As Put, but building a fresh map that holds n alone.
Put_Fresh(m, n, v) == [k \in {n} |-> v]

\* m[n] = v, inserting n when it is absent.
Put(m, n, v) == [k \in DOMAIN m \cup {n} |-> IF k = n THEN v ELSE m[k]]

\* As Remove, removing nothing.
Remove_Keep(m, n) == m

\* delete(m, n)
Remove(m, n) == [k \in DOMAIN m \ {n} |-> m[k]]

IsWrite(r) == req[r].op \in {"create", "update", "delete"}
IsRead(r) == req[r].op \in {"list", "price"}

AllNames == ItemNames \cup DOMAIN SeedItems

Init ==
    /\ items = SeedItems
    /\ wmu = 0
    /\ readers = {}
    /\ pc = [r \in Reqs |-> "idle"]
    /\ req = [r \in Reqs |-> NoReq]
    /\ code = [r \in Reqs |-> 0]
    /\ pv = [r \in Reqs |-> 0]
    /\ out = [r \in Reqs |-> {}]
    /\ resp = [r \in Reqs |-> NoResp]
    /\ before = [r \in Reqs |-> {}]
    /\ pre = [r \in Reqs |-> SeedItems]
    /\ lastw = [n \in AllNames |-> 0]
    /\ prew = [r \in Reqs |-> 0]
    /\ seen = [r \in Reqs |-> {}]

\* The mux dispatches a request to its handler in a goroutine of its own.
\* Invocations are numbered in the order in which they begin.
Dispatch(r) ==
    /\ pc[r] = "idle"
    /\ \A q \in Reqs : q < r => pc[q] # "idle"
    /\ \E q \in Requests :
          /\ req' = [req EXCEPT ![r] = q]
          /\ seen' = [seen EXCEPT ![r] = IF q.op = "list" THEN {items} ELSE {}]
    /\ pc' = [pc EXCEPT ![r] = "lock"]
    /\ before' = [before EXCEPT ![r] = {q \in Reqs : pc[q] = "done"}]
    /\ UNCHANGED <<items, wmu, readers, code, pv, out, resp, pre, lastw, prew>>

\* As ReaderMayEnter for a plain mutex: one reader at a time.
ReaderMayEnter_Alone == wmu = 0 /\ readers = {}

\* As ReaderMayEnter, admitting a reader beside a writer.
ReaderMayEnter_Always == TRUE

\* sync.RWMutex: RLock blocks while a writer owns or waits for the mutex.
ReaderMayEnter == wmu = 0

\* As WriterMayAnnounce, admitting a writer beside a writer.
WriterMayAnnounce_Always == TRUE

\* sync.RWMutex: Lock first takes the writer side, which one writer owns at a time.
WriterMayAnnounce == wmu = 0

\* As WriterMayEnter, admitting a writer beside active readers.
WriterMayEnter_Always == TRUE

\* sync.RWMutex: Lock then waits until the active readers have left.
WriterMayEnter == readers = {}

\* History kept for every list invocation whose history was begun at its
\* dispatch and which has not returned: each value db.items takes.
Observe(m) ==
    [q \in Reqs |-> IF seen[q] # {} THEN seen[q] \cup {m} ELSE seen[q]]

\* db.mutex.RLock() in list and price.
RLock(r) ==
    /\ pc[r] = "lock"
    /\ IsRead(r)
    /\ ReaderMayEnter
    /\ readers' = readers \cup {r}
    /\ pc' = [pc EXCEPT ![r] = IF req[r].op = "list" THEN "loop" ELSE "read"]
    /\ pre' = [pre EXCEPT ![r] = items]
    /\ prew' = [prew EXCEPT ![r] = lastw[req[r].item]]
    /\ UNCHANGED <<items, wmu, req, code, pv, out, resp, before, lastw, seen>>

\* db.mutex.Lock() in create, update and delete: take the writer side.
Lock(r) ==
    /\ pc[r] = "lock"
    /\ IsWrite(r)
    /\ WriterMayAnnounce
    /\ wmu' = r
    /\ pc' = [pc EXCEPT ![r] = "drain"]
    /\ UNCHANGED <<items, readers, req, code, pv, out, resp, before, pre,
                   lastw, prew, seen>>

\* db.mutex.Lock(), continued: return once no reader is active.
LockEnter(r) ==
    /\ pc[r] = "drain"
    /\ WriterMayEnter
    /\ pc' = [pc EXCEPT ![r] = "check"]
    /\ pre' = [pre EXCEPT ![r] = items]
    /\ prew' = [prew EXCEPT ![r] = lastw[req[r].item]]
    /\ UNCHANGED <<items, wmu, readers, req, code, pv, out, resp, before,
                   lastw, seen>>

\* The line list prints for one entry: "%s: %s\n" of the item and its price.
Line(n, d) == [item |-> n, text |-> String(d)]

Visited(r) == {l.item : l \in out[r]}

\* list: one iteration of `for item, price := range db.items`, or its end.
ListLoop(r) ==
    /\ pc[r] = "loop"
    /\ IF DOMAIN items \ Visited(r) # {}
       THEN /\ \E n \in DOMAIN items \ Visited(r) :
                  out' = [out EXCEPT ![r] = @ \cup {Line(n, items[n])}]
            /\ UNCHANGED <<pc, code, resp>>
       ELSE /\ pc' = [pc EXCEPT ![r] = "unlock"]
            /\ code' = [code EXCEPT ![r] = StatusOK]
            /\ resp' = [resp EXCEPT ![r] = [NoResp EXCEPT !.status = StatusOK,
                                                         !.kind = "list"]]
            /\ UNCHANGED out
    /\ UNCHANGED <<items, wmu, readers, req, pv, before, pre, lastw, prew, seen>>

\* As PriceRead where looking up a missing item inserts it with a zero price.
PriceRead_Inserting(r) ==
    /\ pc[r] = "read"
    /\ items' = IF Has(items, req[r].item) THEN items
                ELSE Put(items, req[r].item, 0)
    /\ IF Has(items, req[r].item)
       THEN /\ code' = [code EXCEPT ![r] = StatusOK]
            /\ pv' = [pv EXCEPT ![r] = items[req[r].item]]
       ELSE /\ code' = [code EXCEPT ![r] = StatusNotFound]
            /\ UNCHANGED pv
    /\ pc' = [pc EXCEPT ![r] = "respond"]
    /\ UNCHANGED <<wmu, readers, req, out, resp, before, pre, lastw,
                   prew, seen>>

\* price: item := req.URL.Query().Get("item"); price, ok := db.items[item]
PriceRead(r) ==
    /\ pc[r] = "read"
    /\ IF Has(items, req[r].item)
       THEN /\ code' = [code EXCEPT ![r] = StatusOK]
            /\ pv' = [pv EXCEPT ![r] = items[req[r].item]]
       ELSE /\ code' = [code EXCEPT ![r] = StatusNotFound]
            /\ UNCHANGED pv
    /\ pc' = [pc EXCEPT ![r] = "respond"]
    /\ UNCHANGED <<items, wmu, readers, req, out, resp, before, pre, lastw,
                   prew, seen>>

\* The status and body a handler writes for the outcome it reached.
Response(q, c, d) ==
    IF c = StatusBadRequest
    THEN [status |-> c, kind |-> "invalid price", item |-> "",
          price |-> q.price, text |-> String(0)]
    ELSE IF c = StatusNotFound
    THEN [status |-> c, kind |-> "no such item", item |-> q.item,
          price |-> NoPrice, text |-> String(0)]
    ELSE IF c = StatusConflict
    THEN [status |-> c, kind |-> "item already exists", item |-> q.item,
          price |-> NoPrice, text |-> String(0)]
    ELSE IF q.op = "price"
    THEN [status |-> c, kind |-> "price", item |-> "",
          price |-> NoPrice, text |-> String(d)]
    ELSE IF q.op = "create"
    THEN [status |-> c, kind |-> "created", item |-> q.item,
          price |-> NoPrice, text |-> String(d)]
    ELSE IF q.op = "update"
    THEN [status |-> c, kind |-> "updated", item |-> q.item,
          price |-> NoPrice, text |-> String(d)]
    ELSE [status |-> c, kind |-> "deleted", item |-> q.item,
          price |-> NoPrice, text |-> String(0)]

\* w.WriteHeader(...) and fmt.Fprintf(w, ...): the handler writes its response.
Respond(r) ==
    /\ pc[r] = "respond"
    /\ resp' = [resp EXCEPT ![r] = Response(req[r], code[r], pv[r])]
    /\ pc' = [pc EXCEPT ![r] = "unlock"]
    /\ UNCHANGED <<items, wmu, readers, req, code, pv, out, before, pre,
                   lastw, prew, seen>>

\* As CreateCheck with a validation of the item name: an empty name is
\* answered 400.
CreateCheck_NameRequired(r) ==
    /\ pc[r] = "check"
    /\ req[r].op = "create"
    /\ LET p == ParseFloat(req[r].price) IN
         IF p.err \/ req[r].item = ""
         THEN /\ code' = [code EXCEPT ![r] = StatusBadRequest]
              /\ pc' = [pc EXCEPT ![r] = "respond"]
              /\ UNCHANGED pv
         ELSE /\ pv' = [pv EXCEPT ![r] = p.val]
              /\ IF Has(items, req[r].item)
                 THEN /\ code' = [code EXCEPT ![r] = StatusConflict]
                      /\ pc' = [pc EXCEPT ![r] = "respond"]
                 ELSE /\ pc' = [pc EXCEPT ![r] = "store"]
                      /\ UNCHANGED code
    /\ UNCHANGED <<items, wmu, readers, req, out, resp, before, pre, lastw,
                   prew, seen>>

\* As CreateCheck without the test for an existing item.
CreateCheck_Overwrite(r) ==
    /\ pc[r] = "check"
    /\ req[r].op = "create"
    /\ LET p == ParseFloat(req[r].price) IN
         IF p.err
         THEN /\ code' = [code EXCEPT ![r] = StatusBadRequest]
              /\ pc' = [pc EXCEPT ![r] = "respond"]
              /\ UNCHANGED pv
         ELSE /\ pv' = [pv EXCEPT ![r] = p.val]
              /\ pc' = [pc EXCEPT ![r] = "store"]
              /\ UNCHANGED code
    /\ UNCHANGED <<items, wmu, readers, req, out, resp, before, pre, lastw,
                   prew, seen>>

\* create: parse the price, then test `_, exists := db.items[item]`.
CreateCheck(r) ==
    /\ pc[r] = "check"
    /\ req[r].op = "create"
    /\ LET p == ParseFloat(req[r].price) IN
         IF p.err
         THEN /\ code' = [code EXCEPT ![r] = StatusBadRequest]
              /\ pc' = [pc EXCEPT ![r] = "respond"]
              /\ UNCHANGED pv
         ELSE /\ pv' = [pv EXCEPT ![r] = p.val]
              /\ IF Has(items, req[r].item)
                 THEN /\ code' = [code EXCEPT ![r] = StatusConflict]
                      /\ pc' = [pc EXCEPT ![r] = "respond"]
                 ELSE /\ pc' = [pc EXCEPT ![r] = "store"]
                      /\ UNCHANGED code
    /\ UNCHANGED <<items, wmu, readers, req, out, resp, before, pre, lastw,
                   prew, seen>>

\* create: db.items[item] = dollars(price)
CreateStore(r) ==
    /\ pc[r] = "store"
    /\ req[r].op = "create"
    /\ items' = Put(items, req[r].item, pv[r])
    /\ code' = [code EXCEPT ![r] = StatusOK]
    /\ pc' = [pc EXCEPT ![r] = "respond"]
    /\ lastw' = [lastw EXCEPT ![req[r].item] = r]
    /\ seen' = Observe(items')
    /\ UNCHANGED <<wmu, readers, req, pv, out, resp, before, pre, prew>>

\* As UpdateCheck without the test for a missing item.
UpdateCheck_Upsert(r) ==
    /\ pc[r] = "check"
    /\ req[r].op = "update"
    /\ LET p == ParseFloat(req[r].price) IN
         IF p.err
         THEN /\ code' = [code EXCEPT ![r] = StatusBadRequest]
              /\ pc' = [pc EXCEPT ![r] = "respond"]
              /\ UNCHANGED pv
         ELSE /\ pv' = [pv EXCEPT ![r] = p.val]
              /\ pc' = [pc EXCEPT ![r] = "store"]
              /\ UNCHANGED code
    /\ UNCHANGED <<items, wmu, readers, req, out, resp, before, pre, lastw,
                   prew, seen>>

\* update: parse the price, then test `_, ok := db.items[item]`.
UpdateCheck(r) ==
    /\ pc[r] = "check"
    /\ req[r].op = "update"
    /\ LET p == ParseFloat(req[r].price) IN
         IF p.err
         THEN /\ code' = [code EXCEPT ![r] = StatusBadRequest]
              /\ pc' = [pc EXCEPT ![r] = "respond"]
              /\ UNCHANGED pv
         ELSE /\ pv' = [pv EXCEPT ![r] = p.val]
              /\ IF ~Has(items, req[r].item)
                 THEN /\ code' = [code EXCEPT ![r] = StatusNotFound]
                      /\ pc' = [pc EXCEPT ![r] = "respond"]
                 ELSE /\ pc' = [pc EXCEPT ![r] = "store"]
                      /\ UNCHANGED code
    /\ UNCHANGED <<items, wmu, readers, req, out, resp, before, pre, lastw,
                   prew, seen>>

\* update: db.items[item] = dollars(price)
UpdateStore(r) ==
    /\ pc[r] = "store"
    /\ req[r].op = "update"
    /\ items' = Put(items, req[r].item, pv[r])
    /\ code' = [code EXCEPT ![r] = StatusOK]
    /\ pc' = [pc EXCEPT ![r] = "respond"]
    /\ lastw' = [lastw EXCEPT ![req[r].item] = r]
    /\ seen' = Observe(items')
    /\ UNCHANGED <<wmu, readers, req, pv, out, resp, before, pre, prew>>

\* As DeleteCheck without the test for a missing item.
DeleteCheck_Unchecked(r) ==
    /\ pc[r] = "check"
    /\ req[r].op = "delete"
    /\ pc' = [pc EXCEPT ![r] = "store"]
    /\ UNCHANGED <<items, wmu, readers, req, code, pv, out, resp, before, pre,
                   lastw, prew, seen>>

\* delete: test `_, ok := db.items[item]`.
DeleteCheck(r) ==
    /\ pc[r] = "check"
    /\ req[r].op = "delete"
    /\ IF ~Has(items, req[r].item)
       THEN /\ code' = [code EXCEPT ![r] = StatusNotFound]
            /\ pc' = [pc EXCEPT ![r] = "respond"]
       ELSE /\ pc' = [pc EXCEPT ![r] = "store"]
            /\ UNCHANGED code
    /\ UNCHANGED <<items, wmu, readers, req, pv, out, resp, before, pre,
                   lastw, prew, seen>>

\* delete: delete(db.items, item)
DeleteStore(r) ==
    /\ pc[r] = "store"
    /\ req[r].op = "delete"
    /\ items' = Remove(items, req[r].item)
    /\ code' = [code EXCEPT ![r] = StatusOK]
    /\ pc' = [pc EXCEPT ![r] = "respond"]
    /\ lastw' = [lastw EXCEPT ![req[r].item] = r]
    /\ seen' = Observe(items')
    /\ UNCHANGED <<wmu, readers, req, pv, out, resp, before, pre, prew>>

\* defer db.mutex.RUnlock() in list and price: runs as the handler returns.
RUnlock(r) ==
    /\ pc[r] = "unlock"
    /\ IsRead(r)
    /\ readers' = readers \ {r}
    /\ pc' = [pc EXCEPT ![r] = "done"]
    /\ pre' = [pre EXCEPT ![r] = SeedItems]
    /\ prew' = [prew EXCEPT ![r] = 0]
    /\ seen' = [seen EXCEPT ![r] = {}]
    /\ UNCHANGED <<items, wmu, req, code, pv, out, resp, before, lastw>>

\* As Unlock called at the end of the handler instead of deferred: the early
\* return after an invalid price leaves the mutex locked.
Unlock_NotOnEarlyReturn(r) ==
    /\ pc[r] = "unlock"
    /\ IsWrite(r)
    /\ wmu' = IF code[r] = StatusBadRequest THEN wmu ELSE 0
    /\ pc' = [pc EXCEPT ![r] = "done"]
    /\ pre' = [pre EXCEPT ![r] = SeedItems]
    /\ prew' = [prew EXCEPT ![r] = 0]
    /\ UNCHANGED <<items, readers, req, code, pv, out, resp, before, lastw,
                   seen>>

\* defer db.mutex.Unlock() in create, update and delete.
Unlock(r) ==
    /\ pc[r] = "unlock"
    /\ IsWrite(r)
    /\ wmu' = 0
    /\ pc' = [pc EXCEPT ![r] = "done"]
    /\ pre' = [pre EXCEPT ![r] = SeedItems]
    /\ prew' = [prew EXCEPT ![r] = 0]
    /\ UNCHANGED <<items, readers, req, code, pv, out, resp, before, lastw,
                   seen>>

Next ==
    \E r \in Reqs :
        \/ Dispatch(r)
        \/ RLock(r)
        \/ Lock(r)
        \/ LockEnter(r)
        \/ ListLoop(r)
        \/ PriceRead(r)
        \/ Respond(r)
        \/ CreateCheck(r)
        \/ CreateStore(r)
        \/ UpdateCheck(r)
        \/ UpdateStore(r)
        \/ DeleteCheck(r)
        \/ DeleteStore(r)
        \/ RUnlock(r)
        \/ Unlock(r)

Spec == Init /\ [][Next]_vars

(***************************************************************************)
(* Vocabulary of the properties.                                           *)
(***************************************************************************)

\* The price strings that are numeric literals, and what Get must display
\* for each ("40" is shown as $40.00, "9.5" as $9.50).
Numeric == { <<"4", "0">>, <<"9", ".", "5">> }

Shown(p) ==
    IF p = <<"4", "0">> THEN [neg |-> FALSE, whole |-> 40, frac |-> 0]
    ELSE [neg |-> FALSE, whole |-> 9, frac |-> 50]

\* The stored price that is displayed as Shown(p).
Stored(p) == IF p = <<"4", "0">> THEN 4000 ELSE 950

\* n is a name of the map m.
Present(m, n) == n \in DOMAIN m

\* r is between acquiring and releasing the lock.
InSection(r) == pc[r] \in {"loop", "read", "check", "store", "respond", "unlock"}

\* r has written its whole response and is about to release the lock.
Answered(r) == pc[r] = "unlock"

\* The invocations overlap pairwise: none had returned when another began.
Overlapping(S) == \A a, b \in S : a \notin before[b]

\* Create(n, p) calls with a parsable price.
Creates(n) ==
    {r \in Reqs : req[r].op = "create" /\ req[r].item = n /\ req[r].price \in Numeric}

Succeeded(r) == resp[r].status = StatusOK

\* Some invocation begun so far is a Delete of n, an Update of n.
DeleteOf(n) == \E r \in Reqs : req[r].op = "delete" /\ req[r].item = n
UpdateOf(n) == \E r \in Reqs : req[r].op = "update" /\ req[r].item = n

\* C1: for a name n absent from the initial map and no Delete of n: at no
\* moment have two Create(n, p) calls decided on success; and whenever all
\* the Create(n, p) calls begun so far have returned, there being at least
\* two, exactly one of them reported success, all others reported 409, n is
\* in the map, and (no Update of n having begun) its price is the price of
\* the call that succeeded.
C1_OneCreateWins ==
    \A n \in ItemNames :
        (~Present(SeedItems, n) /\ ~DeleteOf(n))
        => /\ Cardinality({r \in Creates(n) : code[r] = StatusOK}) <= 1
           /\ (/\ \A r \in Creates(n) : pc[r] = "done"
               /\ Cardinality(Creates(n)) >= 2)
              => /\ Cardinality({r \in Creates(n) : Succeeded(r)}) = 1
                 /\ \A r \in Creates(n) :
                       ~Succeeded(r) => resp[r].status = StatusConflict
                 /\ Present(items, n)
                 /\ \A r \in Creates(n) :
                       (Succeeded(r) /\ ~UpdateOf(n))
                       => items[n] = Stored(req[r].price)

\* C1 witness: two overlapping Create calls for an absent name, with different
\* prices, have both returned, one with success and one with 409.
C1_Witness ==
    /\ \A r \in Creates("") : pc[r] = "done"
    /\ \E a, b \in Creates("") :
          /\ a # b
          /\ Overlapping({a, b})
          /\ req[a].price # req[b].price
          /\ Succeeded(a)
          /\ resp[b].status = StatusConflict
          /\ items[""] = Stored(req[a].price)
    /\ ~DeleteOf("") /\ ~UpdateOf("")

\* C2: while a Create, Update or Delete is inside its locked section, no other
\* invocation of any kind is inside its locked section.
C2_WritersExclusive ==
    \A w, r \in Reqs :
        (w # r /\ IsWrite(w) /\ InSection(w)) => ~InSection(r)

\* C2 witness: a writer is inside its locked section while a reader and
\* another writer have begun and are held at the lock.
C2_Witness ==
    \E w, r, x \in Reqs :
        /\ IsWrite(w) /\ InSection(w)
        /\ IsRead(r) /\ pc[r] = "lock"
        /\ IsWrite(x) /\ pc[x] = "lock"

\* C3: a Create(n, p) with a parsable price that acquires the lock while n is
\* absent reports success with the created pair, and a Get(n) that began after
\* it returned, with no other write to n before the Get reads, reports success
\* and shows p.
C3_CreateThenGet ==
    /\ \A c \in Reqs :
          (/\ req[c].op = "create" /\ req[c].price \in Numeric
           /\ Answered(c)
           /\ ~Present(pre[c], req[c].item))
          => /\ resp[c].status = StatusOK
             /\ resp[c].kind = "created"
             /\ resp[c].text = Shown(req[c].price)
    /\ \A g \in Reqs :
          (/\ req[g].op = "price"
           /\ Answered(g)
           /\ prew[g] \in before[g]
           /\ req[prew[g]].op = "create")
          => /\ resp[g].status = StatusOK
             /\ resp[g].kind = "price"
             /\ resp[g].text = Shown(req[prew[g]].price)

\* C3 witness: a Get has answered after a Create of the same, initially
\* absent, name had returned successfully with price "9.5".
C3_Witness ==
    \E g \in Reqs :
        /\ req[g].op = "price" /\ Answered(g)
        /\ prew[g] \in before[g]
        /\ req[prew[g]].op = "create"
        /\ req[prew[g]].price = <<"9", ".", "5">>
        /\ ~Present(SeedItems, req[g].item)
        /\ Succeeded(prew[g])

\* C4: a Create(n, p2) with a parsable price that acquires the lock while n
\* is present reports 409 and leaves the whole map as it was; when the last
\* write of n was a successful Create(n, p1), the price of n is still p1.
C4_SecondCreateRejected ==
    \A c \in Reqs :
        (/\ req[c].op = "create" /\ req[c].price \in Numeric
         /\ Answered(c)
         /\ Present(pre[c], req[c].item))
        => /\ resp[c].status = StatusConflict
           /\ resp[c].kind = "item already exists"
           /\ items = pre[c]
           /\ (prew[c] # 0 /\ req[prew[c]].op = "create")
                 => items[req[c].item] = Stored(req[prew[c]].price)

\* C4 witness: a Create has answered 409 after a Create of the same name
\* with another price had returned successfully.
C4_Witness ==
    \E c \in Reqs :
        /\ req[c].op = "create" /\ req[c].price \in Numeric /\ Answered(c)
        /\ prew[c] \in before[c]
        /\ req[prew[c]].op = "create"
        /\ req[prew[c]].price # req[c].price
        /\ resp[c].status = StatusConflict

\* C5: an Update(n, p) with a parsable price that acquires the lock while n is
\* absent reports 404 and leaves the map as it was: n is not inserted and no
\* other entry changes.
C5_UpdateAbsent ==
    \A u \in Reqs :
        (/\ req[u].op = "update" /\ req[u].price \in Numeric
         /\ Answered(u)
         /\ ~Present(pre[u], req[u].item))
        => /\ resp[u].status = StatusNotFound
           /\ resp[u].kind = "no such item"
           /\ items = pre[u]
           /\ ~Present(items, req[u].item)

\* C5 witness: an Update of an absent name with a parsable price has answered.
C5_Witness ==
    \E u \in Reqs :
        /\ req[u].op = "update" /\ req[u].price \in Numeric /\ Answered(u)
        /\ ~Present(pre[u], req[u].item)
        /\ resp[u].status = StatusNotFound

\* C6: a Delete(n) that acquires the lock while n is absent reports 404 and
\* leaves the map as it was.
C6_DeleteAbsent ==
    \A d \in Reqs :
        (/\ req[d].op = "delete"
         /\ Answered(d)
         /\ ~Present(pre[d], req[d].item))
        => /\ resp[d].status = StatusNotFound
           /\ resp[d].kind = "no such item"
           /\ items = pre[d]

\* C6 witness: a Delete of a name that an earlier Delete removed has answered.
C6_Witness ==
    \E d \in Reqs :
        /\ req[d].op = "delete" /\ Answered(d)
        /\ ~Present(pre[d], req[d].item)
        /\ Present(SeedItems, req[d].item)
        /\ resp[d].status = StatusNotFound

\* C7: a Create or Update whose price string is no number reports 400 and
\* leaves the map as it was, whether or not the item exists.
C7_InvalidPrice ==
    \A r \in Reqs :
        (/\ req[r].op \in {"create", "update"}
         /\ req[r].price \notin Numeric
         /\ Answered(r))
        => /\ resp[r].status = StatusBadRequest
           /\ resp[r].kind = "invalid price"
           /\ items = pre[r]

\* C7 witness: a Create of a present name and an Update of an absent name,
\* both with an unparsable price, have returned with 400.
C7_Witness ==
    \E c, u \in Reqs :
        /\ req[c].op = "create" /\ req[c].price \notin Numeric
        /\ req[c].item = "shoes" /\ pc[c] = "done"
        /\ resp[c].status = StatusBadRequest
        /\ Present(items, "shoes")
        /\ req[u].op = "update" /\ req[u].price \notin Numeric
        /\ req[u].item = "" /\ pc[u] = "done"
        /\ resp[u].status = StatusBadRequest
        /\ ~Present(items, "")

\* C8: a Get(n) that began after the last successful write of n had returned
\* shows that write: the price of that Create or Update, or 404 after a Delete.
C8_ReadSeesLastWrite ==
    \A g \in Reqs :
        (/\ req[g].op = "price"
         /\ Answered(g)
         /\ prew[g] \in before[g])
        => IF req[prew[g]].op = "delete"
           THEN /\ resp[g].status = StatusNotFound
                /\ resp[g].kind = "no such item"
           ELSE /\ resp[g].status = StatusOK
                /\ resp[g].kind = "price"
                /\ resp[g].text = Shown(req[prew[g]].price)

\* C8 witness: a Get of a seeded name has answered 404; it began after a
\* Delete had returned, which itself began after an Update of that name had
\* returned successfully.
C8_Witness ==
    \E g \in Reqs :
        /\ req[g].op = "price" /\ Answered(g)
        /\ Present(SeedItems, req[g].item)
        /\ prew[g] \in before[g]
        /\ req[prew[g]].op = "delete"
        /\ \E u \in before[prew[g]] : /\ req[u].op = "update"
                                      /\ req[u].item = req[g].item
                                      /\ Succeeded(u)
        /\ resp[g].status = StatusNotFound

\* The lines List prints for a map.
Listing(m) == {[item |-> n, text |-> String(m[n])] : n \in DOMAIN m}

\* C9: the lines a List call has produced when it finishes are exactly the
\* entries of the map as it stood at one instant during the call.
C9_ListIsSnapshot ==
    \A l \in Reqs :
        (req[l].op = "list" /\ Answered(l))
        => \E m \in seen[l] : out[l] = Listing(m)

\* C9 witness: a List call has finished during which two writes changed the map.
C9_Witness ==
    \E l \in Reqs :
        /\ req[l].op = "list" /\ Answered(l)
        /\ Cardinality(seen[l]) >= 3
        /\ Cardinality(out[l]) >= 2

\* r holds db.mutex, in shared or exclusive mode.
HoldsLock(r) == r \in readers \/ (wmu = r /\ pc[r] # "drain")

\* r is at a write to its http.ResponseWriter.
Writing(r) ==
    \/ pc[r] = "respond"
    \/ pc[r] = "loop" /\ DOMAIN items \ Visited(r) # {}

\* C10: a handler that is writing its response to the client does not hold
\* the lock in either mode.
C10_NoIOUnderLock == \A r \in Reqs : Writing(r) => ~HoldsLock(r)

\* The step is taken by invocation r.
StepOf(r) == pc'[r] # pc[r] \/ out'[r] # out[r]

\* C12: a step of a List or Get invocation, from its dispatch to its return
\* and whatever its outcome, leaves every entry of the map as it was.
C12_ReadsAreReadOnly ==
    [][\A r \in Reqs :
          (req'[r].op \in {"list", "price"} /\ StepOf(r)) => items' = items]_vars

\* C12 witness: a Get that found no item and a List that printed every entry
\* have both answered, while the third invocation, a write, waits.
C12_Witness ==
    \E g, l, w \in Reqs :
        /\ req[g].op = "price" /\ Answered(g)
        /\ resp[g].status = StatusNotFound
        /\ req[l].op = "list" /\ Answered(l)
        /\ Cardinality(out[l]) = Cardinality(DOMAIN items)
        /\ IsWrite(w) /\ pc[w] = "drain"

\* The five operations run one at a time: the map that operation q leaves
\* when it is applied to the map m.
SeqMap(q, m) ==
    IF q.op = "create" /\ q.price \in Numeric /\ ~Present(m, q.item)
    THEN [k \in DOMAIN m \cup {q.item} |->
             IF k = q.item THEN Stored(q.price) ELSE m[k]]
    ELSE IF q.op = "update" /\ q.price \in Numeric /\ Present(m, q.item)
    THEN [k \in DOMAIN m |-> IF k = q.item THEN Stored(q.price) ELSE m[k]]
    ELSE IF q.op = "delete" /\ Present(m, q.item)
    THEN [k \in DOMAIN m \ {q.item} |-> m[k]]
    ELSE m

\* The outcome of operation q applied to the map m.
SeqStatus(q, m) ==
    IF q.op = "list" THEN StatusOK
    ELSE IF q.op \in {"create", "update"} /\ q.price \notin Numeric
    THEN StatusBadRequest
    ELSE IF q.op = "create"
    THEN (IF Present(m, q.item) THEN StatusConflict ELSE StatusOK)
    ELSE (IF Present(m, q.item) THEN StatusOK ELSE StatusNotFound)

\* C13: every invocation behaves as the sequential operation applied to the
\* map it found on acquiring the lock: while it is in its locked section the
\* map is the one it found, until its own write, and then the one the
\* sequential operation leaves; the status it answers, the price it shows
\* and the lines it lists are those of the sequential operation on that map.
C13_Sequential ==
    \A r \in Reqs :
        /\ InSection(r)
           => items = IF pc[r] \in {"respond", "unlock"}
                      THEN SeqMap(req[r], pre[r]) ELSE pre[r]
        /\ Answered(r)
           => /\ resp[r].status = SeqStatus(req[r], pre[r])
              /\ req[r].op = "list" => out[r] = Listing(pre[r])
              /\ (req[r].op = "price" /\ Present(pre[r], req[r].item))
                 => resp[r].text = String(pre[r][req[r].item])
              /\ (req[r].op \in {"create", "update"}
                  /\ resp[r].status = StatusOK)
                 => resp[r].text = Shown(req[r].price)

\* C13 witness: three invocations that overlap pairwise; two have returned,
\* the third is a write that has answered with success, on a map that the
\* others had changed before it acquired the lock.
C13_Witness ==
    /\ \A r \in Reqs : pc[r] # "idle"
    /\ Overlapping(Reqs)
    /\ \E r \in Reqs :
          /\ IsWrite(r) /\ Answered(r) /\ Succeeded(r)
          /\ pre[r] # SeedItems
          /\ items # pre[r]
          /\ \A q \in Reqs \ {r} : pc[q] = "done"

\* The invocations begun so far that are a Create, Update or Delete of n.
WritesTo(n) == {r \in Reqs : IsWrite(r) /\ req[r].item = n}

\* C14: for a name n of the initial map whose only writes are one Update(n, p)
\* with a parsable price and one Delete(n): once the Delete has removed n, n
\* stays absent (the Update never re-inserts it); when both have returned the
\* Delete reported success and n is absent; the Update reported success or
\* 404, success when it had returned before the Delete began and 404 when it
\* began after the Delete had returned.
C14_UpdateDeleteRace ==
    \A n \in ItemNames : \A u, d \in Reqs :
        (/\ Present(SeedItems, n)
         /\ req[u].op = "update" /\ req[u].price \in Numeric
         /\ req[d].op = "delete"
         /\ WritesTo(n) = {u, d})
        => /\ code[d] = StatusOK => ~Present(items, n)
           /\ pc[d] = "done" => Succeeded(d)
           /\ pc[u] = "done"
              => /\ resp[u].status \in {StatusOK, StatusNotFound}
                 /\ u \in before[d] => Succeeded(u)
                 /\ d \in before[u] => resp[u].status = StatusNotFound
                 /\ Succeeded(u) => resp[u].text = Shown(req[u].price)

\* C14 witness: an Update and a Delete of "shoes" that overlapped have both
\* returned, the Update with 404, and "shoes" is absent.
C14_Witness ==
    \E u, d \in Reqs :
        /\ req[u].op = "update" /\ req[u].price \in Numeric
        /\ req[d].op = "delete"
        /\ WritesTo("shoes") = {u, d}
        /\ Overlapping({u, d})
        /\ pc[u] = "done" /\ pc[d] = "done"
        /\ resp[u].status = StatusNotFound
        /\ Succeeded(d)
        /\ ~Present(items, "shoes")

\* Delete(n) calls.
Deletes(n) == {r \in Reqs : req[r].op = "delete" /\ req[r].item = n}

\* C15: for a name n of the initial map and no Create of n: at no moment
\* have two Delete(n) calls decided on success; and whenever all the
\* Delete(n) calls begun so far have returned, there being at least two,
\* exactly one of them reported success, all others reported 404, and n is
\* absent.
C15_OneDeleteWins ==
    \A n \in ItemNames :
        (Present(SeedItems, n) /\ Creates(n) = {})
        => /\ Cardinality({r \in Deletes(n) : code[r] = StatusOK}) <= 1
           /\ (/\ \A r \in Deletes(n) : pc[r] = "done"
               /\ Cardinality(Deletes(n)) >= 2)
              => /\ Cardinality({r \in Deletes(n) : Succeeded(r)}) = 1
                 /\ \A r \in Deletes(n) :
                       ~Succeeded(r) => resp[r].status = StatusNotFound
                 /\ ~Present(items, n)

\* C15 witness: three Delete("shoes") calls that overlapped pairwise have all
\* returned, one with success and two with 404.
C15_Witness ==
    /\ Deletes("shoes") = Reqs
    /\ Overlapping(Reqs)
    /\ \A r \in Reqs : pc[r] = "done"
    /\ Cardinality({r \in Reqs : Succeeded(r)}) = 1
    /\ Cardinality({r \in Reqs : resp[r].status = StatusNotFound}) = 2

\* C16: readers are not serialized: a List or Get that has reached RLock
\* while no writer owns or waits for the mutex can acquire it at once, however
\* many other readers are inside their locked sections.
C16_ReadersShare ==
    \A r \in Reqs :
        (/\ pc[r] = "lock" /\ IsRead(r)
         /\ wmu = 0
         /\ readers # {})
        => ENABLED RLock(r)

\* C16 witness: a List and a Get are inside their shared-mode locked
\* sections at the same time.
C16_Witness ==
    \E l, g \in Reqs :
        /\ req[l].op = "list" /\ pc[l] = "loop" /\ l \in readers
        /\ req[g].op = "price" /\ pc[g] = "read" /\ g \in readers

\* The lock is held by exactly the invocations that are past their one
\* acquisition and before their one release, each in the mode of its handler.
LockMatchesPositions ==
    /\ \A r \in Reqs : r \in readers <=> (IsRead(r) /\ InSection(r))
    /\ \A r \in Reqs :
          wmu = r <=> (IsWrite(r) /\ (InSection(r) \/ pc[r] = "drain"))
    /\ wmu \in Reqs \cup {0}
    /\ readers \subseteq Reqs
    /\ (\A r \in Reqs : pc[r] \in {"idle", "done"}) => (wmu = 0 /\ readers = {})

\* C17: an invocation takes the lock only in the step that leaves its
\* acquisition point, which it never reaches again; it gives the lock up only
\* in the step in which it returns, on every path; the lock is held in shared
\* mode by exactly the List and Get invocations in their sections and owned
\* by exactly the one Create, Update or Delete past its Lock call; and it is
\* free whenever no invocation is in progress.
C17_LockDiscipline ==
    [][/\ LockMatchesPositions'
       /\ \A r \in Reqs :
             /\ (r \in readers' /\ r \notin readers) => pc[r] = "lock"
             /\ (wmu' = r /\ wmu # r) => pc[r] = "lock"
             /\ (r \in readers /\ r \notin readers') => pc'[r] = "done"
             /\ (wmu = r /\ wmu' # r) => pc'[r] = "done"
             /\ pc'[r] = "lock" => pc[r] \in {"idle", "lock"}
             /\ pc[r] = "done" => pc'[r] = "done"]_vars

\* C17 witness: a Create that returned early with 400, an Update that
\* answered 404 and a Delete that succeeded have all returned, and the lock
\* is free.
C17_Witness ==
    /\ \E a, b, c \in Reqs :
          /\ req[a].op = "create" /\ resp[a].status = StatusBadRequest
          /\ req[b].op = "update" /\ resp[b].status = StatusNotFound
          /\ req[c].op = "delete" /\ resp[c].status = StatusOK
    /\ \A r \in Reqs : pc[r] = "done"
    /\ wmu = 0 /\ readers = {}

\* The maps a and b agree on every name other than n.
SameExcept(a, b, n) ==
    /\ DOMAIN a \ {n} = DOMAIN b \ {n}
    /\ \A k \in DOMAIN a \ {n} : a[k] = b[k]

\* C18: when a Create, Update or Delete has answered with success, the map
\* differs from the one it found only at the name n it was given: Create
\* added n, which was absent, with its price; Update left the set of names as
\* it was and gave n its price; Delete removed n, which was present.
C18_TouchesOnlyItsName ==
    \A r \in Reqs :
        (IsWrite(r) /\ Answered(r) /\ Succeeded(r))
        => /\ SameExcept(items, pre[r], req[r].item)
           /\ req[r].op = "create"
              => /\ ~Present(pre[r], req[r].item)
                 /\ Present(items, req[r].item)
                 /\ items[req[r].item] = Stored(req[r].price)
           /\ req[r].op = "update"
              => /\ DOMAIN items = DOMAIN pre[r]
                 /\ items[req[r].item] = Stored(req[r].price)
           /\ req[r].op = "delete"
              => /\ Present(pre[r], req[r].item)
                 /\ ~Present(items, req[r].item)

\* C18 witness: an Update of "shoes" has answered with success on a map of
\* three entries, one of them created and one never written.
C18_Witness ==
    \E r \in Reqs :
        /\ req[r].op = "update" /\ req[r].item = "shoes"
        /\ Answered(r) /\ Succeeded(r)
        /\ DOMAIN pre[r] = {"shoes", "socks", ""}
        /\ items["shoes"] # pre[r]["shoes"]
        /\ items[""] = pre[r][""]
        /\ items["socks"] = 500

\* C19: the empty item name is a name like any other.  A Create for it with
\* a parsable price succeeds and inserts it when it is absent, and answers 409
\* when it is present; a Get shows its price, an Update with a parsable price
\* sets it and a Delete removes it when it is present.
C19_EmptyName ==
    \A r \in Reqs :
        (Answered(r) /\ req[r].item = "" /\ req[r].op # "list")
        => IF req[r].op = "create" /\ req[r].price \in Numeric
           THEN IF Present(pre[r], "")
                THEN resp[r].status = StatusConflict /\ items = pre[r]
                ELSE /\ resp[r].status = StatusOK
                     /\ resp[r].kind = "created" /\ resp[r].item = ""
                     /\ Present(items, "")
                     /\ items[""] = Stored(req[r].price)
           ELSE (Present(pre[r], "")
                 /\ (req[r].op = "update" => req[r].price \in Numeric)
                 /\ req[r].op # "create")
                => /\ resp[r].status = StatusOK
                   /\ req[r].op = "price"
                      => resp[r].text = String(pre[r][""])
                   /\ req[r].op = "update"
                      => items[""] = Stored(req[r].price)
                   /\ req[r].op = "delete" => ~Present(items, "")

\* C19 witness: a Create of the empty name succeeded, a second Create of it
\* answered 409, and a Delete of it has answered with success.
C19_Witness ==
    \E a, b, d \in Reqs :
        /\ req[a].op = "create" /\ req[a].item = "" /\ pc[a] = "done"
        /\ resp[a].status = StatusOK /\ resp[a].item = ""
        /\ req[b].op = "create" /\ req[b].item = "" /\ pc[b] = "done"
        /\ resp[b].status = StatusConflict
        /\ req[d].op = "delete" /\ req[d].item = "" /\ Answered(d)
        /\ resp[d].status = StatusOK
        /\ ~Present(items, "")

(***************************************************************************)
(* The server as it runs without end: when an invocation has returned, its *)
(* goroutine is gone and a later request is served by a new invocation.    *)
(***************************************************************************)

\* Number of invocations that are in progress at a time in the unending run.
LiveInvocations == 2

LiveReqs == 1..LiveInvocations

\* The requests of the unending run: every handler and every outcome, on the
\* one name "shoes".
LiveRequests ==
    { [op |-> "list", item |-> "", price |-> NoPrice],
      [op |-> "price", item |-> "shoes", price |-> NoPrice],
      [op |-> "create", item |-> "shoes", price |-> <<"4", "0">>],
      [op |-> "create", item |-> "shoes", price |-> <<"a", "b", "c">>],
      [op |-> "update", item |-> "shoes", price |-> <<"9", ".", "5">>],
      [op |-> "delete", item |-> "shoes", price |-> NoPrice] }

\* The mux dispatches a request, at any time and in any order.  The history
\* of which invocations had returned is not kept in the unending run.
LiveDispatch(r) ==
    /\ pc[r] = "idle"
    /\ \E q \in LiveRequests : req' = [req EXCEPT ![r] = q]
    /\ pc' = [pc EXCEPT ![r] = "lock"]
    /\ UNCHANGED <<items, wmu, readers, code, pv, out, resp, before, pre,
                   lastw, prew, seen>>

\* The goroutine of a returned invocation ends; its number is used again.
Retire(r) ==
    /\ pc[r] = "done"
    /\ pc' = [pc EXCEPT ![r] = "idle"]
    /\ req' = [req EXCEPT ![r] = NoReq]
    /\ code' = [code EXCEPT ![r] = 0]
    /\ pv' = [pv EXCEPT ![r] = 0]
    /\ out' = [out EXCEPT ![r] = {}]
    /\ resp' = [resp EXCEPT ![r] = NoResp]
    /\ lastw' = [n \in AllNames |-> IF lastw[n] = r THEN 0 ELSE lastw[n]]
    /\ UNCHANGED <<items, wmu, readers, before, pre, prew, seen>>

\* The statements of a handler between its lock call and its return.
Body(r) ==
    \/ LockEnter(r)
    \/ ListLoop(r)
    \/ PriceRead(r)
    \/ Respond(r)
    \/ CreateCheck(r)
    \/ CreateStore(r)
    \/ UpdateCheck(r)
    \/ UpdateStore(r)
    \/ DeleteCheck(r)
    \/ DeleteStore(r)
    \/ RUnlock(r)
    \/ Unlock(r)

LiveNext ==
    \E r \in LiveReqs :
        \/ LiveDispatch(r)
        \/ RLock(r)
        \/ Lock(r)
        \/ Body(r)
        \/ Retire(r)

\* list's fmt.Fprintf of one item to the client's connection.
ListWrite(r) == ListLoop(r) /\ out'[r] # out[r]

\* The scheduler runs every goroutine that can run.  A goroutine blocked in
\* RLock or Lock is woken when the mutex is handed on: Unlock admits the
\* readers blocked behind the writer before the next writer, and the writer
\* side is passed to the writer that waited longest.  A goroutine inside
\* list's Fprintf runs again only when the connection takes the bytes: the
\* listing has no bound on its size, the server sets no write timeout, and
\* so a client that stops reading keeps the goroutine there; no scheduling
\* makes that step happen.
Fairness ==
    \A r \in LiveReqs :
        /\ WF_vars(Body(r) /\ ~ListWrite(r))
        /\ SF_vars(RLock(r))
        /\ SF_vars(Lock(r))

LiveSpec == Init /\ [][LiveNext]_vars /\ Fairness

\* C11: every invocation that has been dispatched acquires the lock, and every
\* invocation that has been dispatched completes and returns, having released
\* the lock, whatever keeps arriving.
C11_EveryCallReturns ==
    \A r \in LiveReqs :
        /\ (pc[r] = "lock") ~> InSection(r)
        /\ (pc[r] = "lock") ~> (pc[r] = "done" /\ ~HoldsLock(r))

\* Every client goes on reading, so that each Fprintf of list returns.
ClientsRead == \A r \in LiveReqs : WF_vars(ListWrite(r))

\* C11 when no client stalls: if every client goes on reading, every
\* invocation that has been dispatched acquires the lock and returns.
C11_ReturnsWhenClientsRead == ClientsRead => C11_EveryCallReturns

\* The part of C11 about the invocations whose own clients are reading: every
\* invocation that has been dispatched acquires the lock.
C11_EveryCallAcquires ==
    \A r \in LiveReqs : (pc[r] = "lock") ~> InSection(r)

\* C11 witness: in a later round of invocations, after a Delete has removed
\* "shoes" and returned, a writer that arrived while a reader was in its
\* section has called Lock and waits for the reader to leave.
C11_Witness ==
    \E a, w \in LiveReqs :
        /\ IsRead(a) /\ InSection(a)
        /\ IsWrite(w) /\ pc[w] = "drain"
        /\ ~Present(items, "shoes")

====
